---- MODULE Spec2Model ----
(***************************************************************************)
(* SM2 signatures (package sm2): key generation, signing, verification    *)
(* and the ASN.1 signature envelope, modelled over a toy curve of prime    *)
(* order so that every branch of the arithmetic is exhaustively reachable. *)
(***************************************************************************)
EXTENDS Integers, Sequences, FiniteSets, TLC

(***************************************************************************)
(* Bounds of the model (inputs the environment may supply).                *)
(***************************************************************************)
\* the last byte of the first 32 bytes of a digest ranges over 0..MaxDigestByte
MaxDigestByte == 3
\* the byte following the first 32 bytes of a long digest ranges over 0..MaxTailByte
MaxTailByte == 1
\* the last byte read from the entropy source ranges over 0..MaxEntropyByte
MaxEntropyByte == 6
\* the byte before it ranges over 0..MaxEntropyHigh
MaxEntropyHigh == 1

(***************************************************************************)
(* Curve domain parameters: y^2 = x^3 + A*x + B over GF(P), base point     *)
(* (Gx, Gy) of prime order N.  As on the SM2 curve, A = P - 3 and N < P.   *)
(***************************************************************************)
P == 11
A == 8
B == 10
Gx == 2
Gy == 1
N == 7
\* params.BitSize of the toy curve (P < 2^4)
BitSize == 4

\* the point at infinity as the elliptic.Curve interface returns it
Infinity == <<0, 0>>

\* modular inverse in GF(P) of a non-zero element
FieldInverse(x) == CHOOSE y \in 1..(P - 1) : (x * y) % P = 1

\* affine point addition with the infinity, doubling and negation cases
PointAdd(p1, p2) ==
    IF p1 = Infinity THEN p2
    ELSE IF p2 = Infinity THEN p1
    ELSE IF p1[1] = p2[1] /\ (p1[2] + p2[2]) % P = 0 THEN Infinity
    ELSE LET l == IF p1 = p2
                  THEN ((3 * p1[1] * p1[1] + A) * FieldInverse((2 * p1[2]) % P)) % P
                  ELSE (((p2[2] - p1[2]) % P) * FieldInverse((p2[1] - p1[1]) % P)) % P
             x3 == (l * l - p1[1] - p2[1]) % P
             y3 == (l * (p1[1] - x3) - p1[2]) % P
         IN  <<x3, y3>>

\* k*pt by double-and-add; k = 0 gives infinity
RECURSIVE ScalarMultiply(_, _)
ScalarMultiply(k, pt) ==
    IF k = 0 THEN Infinity
    ELSE LET h == ScalarMultiply(k \div 2, pt)
             d == PointAdd(h, h)
         IN  IF k % 2 = 1 THEN PointAdd(d, pt) ELSE d

(***************************************************************************)
(* math/big conversions between integers and big-endian byte strings.      *)
(***************************************************************************)
\* big.Int.SetBytes: the unsigned big-endian value of a byte string
RECURSIVE SetBytesTo(_, _)
SetBytesTo(b, i) ==
    IF i = 0 THEN 0
    ELSE SetBytesTo(b, i - 1) * 256 + b[i]

SetBytes(b) == SetBytesTo(b, Len(b))

\* big.Int.Bytes: the minimal big-endian byte string of |x|
RECURSIVE Bytes(_)
Bytes(x) ==
    IF x = 0 THEN <<>>
    ELSE Append(Bytes(x \div 256), x % 256)

\* elliptic.Curve.ScalarMult(x, y, k): k is a big-endian byte string
ScalarMult(x, y, k) == ScalarMultiply(SetBytes(k), <<x, y>>)

\* elliptic.Curve.ScalarBaseMult(k)
ScalarBaseMult(k) == ScalarMultiply(SetBytes(k), <<Gx, Gy>>)

\* elliptic.Curve.Add(x1, y1, x2, y2)
Add(x1, y1, x2, y2) == PointAdd(<<x1, y1>>, <<x2, y2>>)

(***************************************************************************)
(* *big.Int values: Nil is the nil pointer, Big(v) points to the value v.  *)
(***************************************************************************)
Nil == <<>>
Big(v) == <<v>>
Val(x) == x[1]

\* big.Int.ModInverse(g, n): the inverse, or 0 (receiver left unchanged,
\* here s2 itself) when g has none
ModInverse(g, n) ==
    IF \E y \in 1..(n - 1) : (g * y) % n = 1
    THEN CHOOSE y \in 1..(n - 1) : (g * y) % n = 1
    ELSE g

(***************************************************************************)
(* The entropy source (io.Reader): a read of len bytes either fails or     *)
(* fills the buffer.                                                       *)
(***************************************************************************)
ReadFail == <<>>

\* number of bytes randFieldElement and generateRandK ask for
ReadLen == BitSize \div 8 + 8

EntropyReads ==
    { [i \in 1..ReadLen |-> IF i = ReadLen THEN lo
                            ELSE IF i = ReadLen - 1 THEN hi ELSE 0] :
        lo \in 0..MaxEntropyByte, hi \in 0..MaxEntropyHigh }

EntropyOutcomes == EntropyReads \cup {ReadFail}

\* randFieldElement: (k, err)
randFieldElement(read) ==
    IF read = ReadFail
    THEN [k |-> Nil, err |-> "entropy"]
    ELSE [k |-> Big((SetBytes(read) % (N - 1)) + 1), err |-> "none"]

\* generateRandK with the "+ one" dropped and the modulus taken as n
generateRandKNoOne(read) ==
    IF read = ReadFail
    THEN Nil
    ELSE Big(SetBytes(read) % N)

\* generateRandK: k, nil when the read failed
generateRandK(read) ==
    IF read = ReadFail
    THEN Nil
    ELSE Big((SetBytes(read) % (N - 1)) + 1)

(***************************************************************************)
(* Digests handed to Sign and Verify.                                      *)
(***************************************************************************)
HashLen == 32

Digest(len, b, t) ==
    [i \in 1..len |-> IF i = HashLen THEN b ELSE IF i > HashLen THEN t ELSE 0]

Digests ==
    {Digest(0, 0, 0), Digest(HashLen - 1, 0, 0)}
    \cup {Digest(HashLen, b, 0) : b \in 0..MaxDigestByte}
    \cup {Digest(HashLen + 1, b, t) : b \in 0..MaxDigestByte, t \in 0..MaxTailByte}

(***************************************************************************)
(* encoding/asn1: the DER envelope SEQUENCE { INTEGER R, INTEGER S }.      *)
(* Lengths stay below 128, so only the short length form occurs.           *)
(***************************************************************************)
TagSequence == 48
TagInteger == 2

\* tag, length, content
TLV(tag, content) == <<tag, Len(content)>> \o content

\* the content bytes of a non-negative INTEGER (marshalBigInt)
IntegerBytes(v) ==
    IF v = 0 THEN <<0>>
    ELSE IF Bytes(v)[1] >= 128 THEN <<0>> \o Bytes(v)
    ELSE Bytes(v)

\* asn1.Marshal(sm2Signature{r, s})
Marshal(r, s) ==
    TLV(TagSequence, TLV(TagInteger, IntegerBytes(r)) \o TLV(TagInteger, IntegerBytes(s)))

\* the element starting at index i of b, expected to carry the given tag
ParseElement(b, i, tag) ==
    IF i + 1 > Len(b) THEN [ok |-> FALSE, content |-> <<>>, next |-> i]
    ELSE IF b[i] # tag \/ b[i + 1] >= 128 \/ i + 1 + b[i + 1] > Len(b)
    THEN [ok |-> FALSE, content |-> <<>>, next |-> i]
    ELSE [ok |-> TRUE, content |-> SubSeq(b, i + 2, i + 1 + b[i + 1]),
          next |-> i + 2 + b[i + 1]]

\* checkInteger: not empty and minimally encoded
CheckInteger(c) ==
    /\ Len(c) > 0
    /\ ~(Len(c) >= 2 /\ c[1] = 0 /\ c[2] < 128)
    /\ ~(Len(c) >= 2 /\ c[1] = 255 /\ c[2] >= 128)

RECURSIVE Pow256(_)
Pow256(len) == IF len = 0 THEN 1 ELSE 256 * Pow256(len - 1)

\* parseBigInt: the two's complement value of the content bytes
ParseBigInt(c) ==
    IF c[1] >= 128 THEN SetBytes(c) - Pow256(Len(c)) ELSE SetBytes(c)

\* an INTEGER field of the structure, read at index i of the SEQUENCE content
ParseIntegerField(inner, i) ==
    LET el == ParseElement(inner, i, TagInteger)
    IN  IF ~el.ok \/ ~CheckInteger(el.content)
        THEN [ok |-> FALSE, val |-> 0, next |-> i]
        ELSE [ok |-> TRUE, val |-> ParseBigInt(el.content), next |-> el.next]

\* asn1.Unmarshal(sign, &sm2Sign): the fields are read in order from the
\* SEQUENCE; bytes left in the SEQUENCE after the last field are allowed,
\* bytes after the SEQUENCE are returned as rest
Unmarshal(b) ==
    LET seq == ParseElement(b, 1, TagSequence)
        fr  == ParseIntegerField(seq.content, 1)
        fs  == ParseIntegerField(seq.content, fr.next)
    IN  IF ~seq.ok \/ ~fr.ok \/ ~fs.ok
        THEN [err |-> TRUE, R |-> Nil, S |-> Nil, rest |-> <<>>]
        ELSE [err |-> FALSE, R |-> Big(fr.val), S |-> Big(fs.val),
              rest |-> SubSeq(b, seq.next, Len(b))]

\* byte strings a verifier may be handed in place of the envelope der
\* carrying the first field r
Tamperings(der, r) ==
    { der,
      der \o <<0>>,
      TLV(TagSequence, SubSeq(der, 3, Len(der)) \o TLV(TagInteger, <<1>>)),
      SubSeq(der, 1, Len(der) - 1),
      TLV(TagSequence, TLV(TagInteger, IntegerBytes(r))),
      [der EXCEPT ![1] = 49],
      [der EXCEPT ![3] = 4],
      <<>> }

(***************************************************************************)
(* State.                                                                  *)
(***************************************************************************)
VARIABLES
    priv,     \* the key GenerateKey returned: NoKey or [D, X, Y]
    genErr,   \* the error of the last GenerateKey call
    genRead,  \* the bytes the entropy source gave that call (ReadFail: none)
    call      \* the call in progress: its inputs and what it returned

vars == <<priv, genErr, genRead, call>>

NoKey == [D |-> 0, X |-> 0, Y |-> 0]

\* op     the function called ("none": the caller is between calls)
\* hash   the digest passed in;  sign  the envelope passed in (PublicKey.Verify)
\* r, s   the signature returned (Sign) or passed in (Verify)
\* e      the integer the function derived from the digest
\* k      the nonce of the signing attempt;  reads  reads of the entropy source
\* read   the bytes the entropy source gave the call (ReadFail: none)
\* err    the error returned, "panic" for a run-time panic
\* out    the envelope returned (PrivateKey.Sign);  ok  the boolean returned
\* pt     the point S*G + T*P computed by Verify
\* signed the arguments of Verify / PublicKey.Verify are exactly what the
\*        preceding Sign / PrivateKey.Sign returned for the same digest;
\*        se is then the e of that signing call
NoCall == [op |-> "none", hash |-> <<>>, sign |-> <<>>, r |-> Nil, s |-> Nil,
           e |-> 0, k |-> Nil, reads |-> 0, err |-> "none", out |-> <<>>,
           ok |-> FALSE, pt |-> Infinity, signed |-> FALSE, se |-> 0,
           read |-> ReadFail]

Init ==
    /\ priv = NoKey
    /\ genErr = "none"
    /\ genRead = ReadFail
    /\ call = NoCall

\* GenerateKey(rand)
GenerateKeyResult(read) ==
    LET rk == randFieldElement(read)
    IN  IF rk.err # "none"
        THEN [priv |-> NoKey, err |-> rk.err]
        ELSE LET q == ScalarBaseMult(Bytes(Val(rk.k)))
             IN  [priv |-> [D |-> Val(rk.k), X |-> q[1], Y |-> q[2]],
                  err |-> "none"]

GenerateKey ==
    /\ priv = NoKey
    /\ \E read \in EntropyOutcomes :
          LET g == GenerateKeyResult(read)
          IN  /\ priv' = g.priv
              /\ genErr' = g.err
              /\ genRead' = read
    /\ UNCHANGED call

\* Sign with the length test off by one (len(hash) <= 32)
SignResultLenOffByOne(key, hash, read) ==
    IF Len(hash) <= HashLen
    THEN [r |-> Nil, s |-> Nil, err |-> "short hash", e |-> 0, k |-> Nil, reads |-> 0]
    ELSE LET e == SetBytes(SubSeq(hash, 1, HashLen))
             k == generateRandK(read)
         IN  IF k = Nil
             THEN [r |-> Nil, s |-> Nil, err |-> "panic", e |-> e, k |-> Nil, reads |-> 1]
             ELSE LET x1 == ScalarBaseMult(Bytes(Val(k)))[1]
                      r  == (e + x1) % N
                      s1 == (Val(k) - ((r * key.D) % N)) % N
                      s2 == ModInverse((1 + key.D) % N, N)
                      s  == (s1 * s2) % N
                  IN  [r |-> Big(r), s |-> Big(s), err |-> "none", e |-> e,
                       k |-> k, reads |-> 1]

\* Sign(rand, priv, hash): (r, s, err); a nil nonce makes k.Bytes() panic
SignResult(key, hash, read) ==
    IF Len(hash) < HashLen
    THEN [r |-> Nil, s |-> Nil, err |-> "short hash", e |-> 0, k |-> Nil, reads |-> 0]
    ELSE LET e == SetBytes(SubSeq(hash, 1, HashLen))
             k == generateRandK(read)
         IN  IF k = Nil
             THEN [r |-> Nil, s |-> Nil, err |-> "panic", e |-> e, k |-> Nil, reads |-> 1]
             ELSE LET x1 == ScalarBaseMult(Bytes(Val(k)))[1]
                      r  == (e + x1) % N
                      s1 == (Val(k) - ((r * key.D) % N)) % N
                      s2 == ModInverse((1 + key.D) % N, N)
                      s  == (s1 * s2) % N
                  IN  [r |-> Big(r), s |-> Big(s), err |-> "none", e |-> e,
                       k |-> k, reads |-> 1]

Sign ==
    /\ priv # NoKey
    /\ call.op = "none"
    /\ \E hash \in Digests, read \in EntropyOutcomes :
          LET res == SignResult(priv, hash, read)
          IN  call' = [NoCall EXCEPT !.op = "Sign", !.hash = hash, !.r = res.r,
                         !.s = res.s, !.err = res.err, !.e = res.e, !.k = res.k,
                         !.reads = res.reads,
                         !.read = IF res.reads > 0 THEN read ELSE ReadFail]
    /\ UNCHANGED <<priv, genErr, genRead>>

\* PrivateKey.Sign(rand, msg, opts): (envelope, err)
PrivateKeySign ==
    /\ priv # NoKey
    /\ call.op = "none"
    /\ \E msg \in Digests, read \in EntropyOutcomes :
          LET res == SignResult(priv, msg, read)
          IN  call' = [NoCall EXCEPT !.op = "PrivateKey.Sign", !.hash = msg,
                         !.r = res.r, !.s = res.s, !.err = res.err, !.e = res.e,
                         !.k = res.k, !.reads = res.reads,
                         !.read = IF res.reads > 0 THEN read ELSE ReadFail,
                         !.out = IF res.err = "none"
                                 THEN Marshal(Val(res.r), Val(res.s))
                                 ELSE <<>>]
    /\ UNCHANGED <<priv, genErr, genRead>>

\* Verify with the upper range test on s off by one (s.Cmp(N) > 0)
VerifyResultSUpTo(pub, hash, r, s) ==
    IF r <= 0 \/ s <= 0
    THEN [ok |-> FALSE, e |-> 0, pt |-> Infinity]
    ELSE IF r >= N \/ s > N
    THEN [ok |-> FALSE, e |-> 0, pt |-> Infinity]
    ELSE LET e   == SetBytes(hash)
             t   == r + s
             p11 == ScalarMult(pub.X, pub.Y, Bytes(t))
             p12 == ScalarBaseMult(Bytes(s))
             p1  == Add(p11[1], p11[2], p12[1], p12[2])
             x   == (e + p1[1]) % N
         IN  [ok |-> x = r, e |-> e, pt |-> p1]

\* Verify(pub, hash, r, s)
VerifyResult(pub, hash, r, s) ==
    IF r <= 0 \/ s <= 0
    THEN [ok |-> FALSE, e |-> 0, pt |-> Infinity]
    ELSE IF r >= N \/ s >= N
    THEN [ok |-> FALSE, e |-> 0, pt |-> Infinity]
    ELSE LET e   == SetBytes(hash)
             t   == r + s
             p11 == ScalarMult(pub.X, pub.Y, Bytes(t))
             p12 == ScalarBaseMult(Bytes(s))
             p1  == Add(p11[1], p11[2], p12[1], p12[2])
             x   == (e + p1[1]) % N
         IN  [ok |-> x = r, e |-> e, pt |-> p1]

\* signature components a caller may pass to Verify
RSVals == (-1)..N

\* the arguments of a Verify call: what the preceding Sign returned, with
\* its digest, or any digest and pair of integers
VerifyArgs ==
    IF call.op = "Sign" /\ call.err = "none"
    THEN {<<call.hash, Val(call.r), Val(call.s)>>}
    ELSE Digests \X RSVals \X RSVals

Verify ==
    /\ priv # NoKey
    /\ call.op = "none" \/ (call.op = "Sign" /\ call.err = "none")
    /\ \E a \in VerifyArgs :
          LET res == VerifyResult(priv, a[1], a[2], a[3])
          IN  call' = [NoCall EXCEPT !.op = "Verify", !.hash = a[1], !.r = Big(a[2]),
                         !.s = Big(a[3]), !.e = res.e, !.ok = res.ok, !.pt = res.pt,
                         !.signed = (call.op = "Sign"), !.k = call.k,
                         !.se = call.e]
    /\ UNCHANGED <<priv, genErr, genRead>>

\* PublicKey.Verify(msg, sign)
PublicKeyVerifyResult(pub, msg, sign) ==
    LET u == Unmarshal(sign)
    IN  IF u.err
        THEN [ok |-> FALSE, e |-> 0, pt |-> Infinity, r |-> Nil, s |-> Nil]
        ELSE LET v == VerifyResult(pub, msg, Val(u.R), Val(u.S))
             IN  [ok |-> v.ok, e |-> v.e, pt |-> v.pt, r |-> u.R, s |-> u.S]

PublicKeyVerify ==
    /\ priv # NoKey
    /\ call.op = "PrivateKey.Sign" /\ call.err = "none"
    /\ \E sign \in Tamperings(call.out, Val(call.r)) :
          LET res == PublicKeyVerifyResult(priv, call.hash, sign)
          IN  call' = [NoCall EXCEPT !.op = "PublicKey.Verify", !.hash = call.hash,
                         !.sign = sign, !.r = res.r, !.s = res.s, !.e = res.e,
                         !.ok = res.ok, !.pt = res.pt,
                         !.signed = (sign = call.out), !.k = call.k,
                         !.se = call.e, !.out = call.out]
    /\ UNCHANGED <<priv, genErr, genRead>>

\* the caller takes the result; a panic ends the program
Return ==
    /\ call.op # "none"
    /\ call.err # "panic"
    /\ call' = NoCall
    /\ UNCHANGED <<priv, genErr, genRead>>

Next ==
    \/ GenerateKey
    \/ Sign
    \/ PrivateKeySign
    \/ Verify
    \/ PublicKeyVerify
    \/ Return

Spec == Init /\ [][Next]_vars
(***************************************************************************)
(* Properties.                                                             *)
(***************************************************************************)
SignOps == {"Sign", "PrivateKey.Sign"}
InRange(x) == x \in 1..(N - 1)

\* C1: a signature Sign returns for a 32-byte digest under a generated key
\* is accepted by Verify with the matching public key and the same digest.
C1_RoundTrip ==
    (call.op = "Verify" /\ call.signed /\ Len(call.hash) = HashLen) => call.ok

\* C2: Verify returns false whenever R or S lies outside [1, n-1], whatever
\* the public key and the digest (called directly or from PublicKey.Verify
\* with the decoded R and S).
C2_RangeRejection ==
    (/\ call.op \in {"Verify", "PublicKey.Verify"}
     /\ call.r # Nil
     /\ ~InRange(Val(call.r)) \/ ~InRange(Val(call.s)))
        => ~call.ok

\* the signature equation of pub, hash, r, s taken modulo n, with no range test
EquationHolds(pub, hash, r, s) ==
    LET tp == ScalarMultiply((r + s) % N, <<pub.X, pub.Y>>)
        sg == ScalarMultiply(s % N, <<Gx, Gy>>)
    IN  (SetBytes(hash) + PointAdd(tp, sg)[1]) % N = r % N

\* C2 witness: Verify rejected S = n although the equation is satisfied
C2_Witness ==
    /\ call.op = "Verify"
    /\ Val(call.s) = N
    /\ InRange(Val(call.r))
    /\ EquationHolds(priv, call.hash, Val(call.r), Val(call.s))
    /\ ~call.ok

\* C3: every signature Sign returns without error has R in [1, n-1],
\* S in [1, n-1] and R + k # n for the nonce k it was computed from
\* (degenerate attempts are discarded and retried).
C3_RetryDiscipline ==
    (call.op \in SignOps /\ call.err = "none")
        => /\ InRange(Val(call.r))
           /\ InRange(Val(call.s))
           /\ Val(call.r) + Val(call.k) # N

\* C4: when the entropy source fails, GenerateKey and Sign return an error
\* and no key / no signature, and neither panics.
C4_EntropyFailure ==
    /\ genErr = "entropy" => priv = NoKey
    /\ (call.op \in SignOps /\ call.reads > 0 /\ call.read = ReadFail)
          => /\ call.err = "entropy"
             /\ call.r = Nil
             /\ call.s = Nil

\* C5: Sign with a digest shorter than 32 bytes returns an error and no
\* signature before any read of the entropy source; with 32 bytes or more
\* that error is never returned.
C5_ShortDigest ==
    call.op \in SignOps =>
        /\ Len(call.hash) < HashLen
              => /\ call.err = "short hash"
                 /\ call.r = Nil /\ call.s = Nil /\ call.out = <<>>
                 /\ call.reads = 0
        /\ Len(call.hash) >= HashLen => call.err # "short hash"

\* C5 witness: Sign refused a 31-byte digest
C5_Witness ==
    /\ call.op = "Sign"
    /\ Len(call.hash) = HashLen - 1
    /\ call.err = "short hash"
    /\ call.reads = 0

\* exactly one SEQUENCE of two INTEGER fields and nothing else
ExactEnvelope(b) == \E r \in 0..N, s \in 0..N : b = Marshal(r, s)

\* C6: PublicKey.Verify returns false for every byte string that is not
\* exactly one SEQUENCE of two INTEGER fields (R, S).
C6_MalformedEnvelope ==
    (call.op = "PublicKey.Verify" /\ ~ExactEnvelope(call.sign)) => ~call.ok

C8_ZeroT ==
    (/\ call.op = "Verify"
     /\ Len(call.hash) = HashLen
     /\ InRange(Val(call.r)) /\ InRange(Val(call.s))
     /\ (Val(call.r) + Val(call.s)) % N = 0)
        => ~call.ok

\* C9: Verify returns false whenever the point S*G + T*P is the point at
\* infinity (stated here for the 32-byte digests of the digest contract).
C9_InfinityPoint ==
    (/\ call.op = "Verify"
     /\ Len(call.hash) = HashLen
     /\ InRange(Val(call.r)) /\ InRange(Val(call.s))
     /\ call.pt = Infinity)
        => ~call.ok

\* C10: for a digest of 32 bytes or more Verify derives the same integer E
\* as Sign did, and accepts the signature Sign produced over a longer digest
\* whenever it accepts it for the 32-byte prefix (stated for the signatures
\* that pass the range test, after which Verify derives E).
C10_SameE ==
    (/\ call.op = "Verify" /\ call.signed /\ Len(call.hash) >= HashLen
     /\ InRange(Val(call.r)) /\ InRange(Val(call.s)))
        => /\ call.e = call.se
           /\ VerifyResult(priv, SubSeq(call.hash, 1, HashLen),
                           Val(call.r), Val(call.s)).ok => call.ok
====
